---- MODULE Spec2Model ----
(***************************************************************************)
(* kaggle_reader_slow.py: the keyword-argument query compiler              *)
(* (operators_reader), the record filter (selector, select), the goal      *)
(* aggregator (team_goals, sum_goals) and the try/except of the entry      *)
(* point, as a state machine.                                              *)
(*                                                                         *)
(* Python strings are sequences of one-character strings, so that          *)
(* str.split('__'), the lexicographic order of str and int(str) are        *)
(* computed and not assumed.  A Python value is a record [t, s, n]:        *)
(* t = "str" (text s), t = "int" (number n) or t = "none" (None).          *)
(* A dict is the sequence of its [k, v] items in insertion order.          *)
(***************************************************************************)
EXTENDS Integers, Sequences, FiniteSets, TLC

VARIABLES
    pc,             \* position of the run: select, reader, filter, sum, except, done
    it,             \* select's argument it: the records to filter
    search_params,  \* the dict the caller unpacks into select's **kwargs
    team,           \* the entity whose goals are summed
    kwargs,         \* select's local kwargs (mode popped out of it)
    mode,           \* select's local mode
    reader_ops,     \* operators_reader's local list operators
    operators,      \* select's local operators: <<>> unbound, <<list>> once bound
    elements,       \* select's local elements, then sum_goals' games
    i,              \* position of the running for loop / reduce (1-based)
    res,            \* reduce's accumulator
    exc,            \* the exception in flight (NoExc: none)
    stdout          \* what print has written

vars == <<pc, it, search_params, team, kwargs, mode, reader_ops, operators,
          elements, i, res, exc, stdout>>

----------------------------------------------------------------------------
\* Bounds of the model.

\* Longest record sequence handed to select.
MaxRecords == 2

\* Most comparison entries in a query specification (the mode key not counted).
MaxKeys == 2

----------------------------------------------------------------------------
\* Python values.

None == [t |-> "none", s |-> <<>>, n |-> 0]

Str(chars) == [t |-> "str", s |-> chars, n |-> 0]

Num(k) == [t |-> "int", s |-> <<>>, n |-> k]

Range(f) == {f[x] : x \in DOMAIN f}

Digits == <<"0", "1", "2", "3", "4", "5", "6", "7", "8", "9">>

Upper == <<"A", "B", "C", "D", "E", "F", "G", "H", "I", "J", "K", "L", "M",
           "N", "O", "P", "Q", "R", "S", "T", "U", "V", "W", "X", "Y", "Z">>

Lower == <<"a", "b", "c", "d", "e", "f", "g", "h", "i", "j", "k", "l", "m",
           "n", "o", "p", "q", "r", "s", "t", "u", "v", "w", "x", "y", "z">>

IndexOf(c, seq) == CHOOSE j \in 1..Len(seq) : seq[j] = c

\* The code point of a character (ASCII).
ord(c) ==
    IF c \in Range(Digits) THEN 47 + IndexOf(c, Digits)
    ELSE IF c \in Range(Upper) THEN 64 + IndexOf(c, Upper)
    ELSE IF c \in Range(Lower) THEN 96 + IndexOf(c, Lower)
    ELSE IF c = "_" THEN 95
    ELSE IF c = "-" THEN 45
    ELSE IF c = "+" THEN 43
    ELSE 32

\* str < str: lexicographic by code point, a proper prefix first.
RECURSIVE StrLess(_, _)
StrLess(a, b) ==
    IF b = <<>> THEN FALSE
    ELSE IF a = <<>> THEN TRUE
    ELSE IF ord(Head(a)) # ord(Head(b)) THEN ord(Head(a)) < ord(Head(b))
    ELSE StrLess(Tail(a), Tail(b))

\* a == b on str, int and None.
ValEq(a, b) == a.t = b.t /\ a.s = b.s /\ a.n = b.n

\* a < b where both are str or both are int.
ValLess(a, b) == IF a.t = "str" THEN StrLess(a.s, b.s) ELSE a.n < b.n

\* Whether Python orders a and b at all: str with str, int with int.
Ordered(a, b) == a.t = b.t /\ a.t \in {"str", "int"}

----------------------------------------------------------------------------
\* Exceptions: the type, the text print(ex) shows, the function that raised.

NoExc == [type |-> "", msg |-> "", where |-> ""]

Raise(type, msg, where) == [type |-> type, msg |-> msg, where |-> where]

InvalidOperator == Raise("Exception", "Invalid Operator", "operators_reader")

UnpackError ==
    Raise("ValueError", "too many values to unpack (expected 2)", "operators_reader")

CompareError ==
    Raise("TypeError", "not supported between instances", "selector")

----------------------------------------------------------------------------
\* The functions of the operator module that getattr(operator, op) yields.
\* The result is [raised, val]: raised when Python raises TypeError.

Apply(op, a, b) ==
    IF op = "eq" THEN [raised |-> FALSE, val |-> ValEq(a, b)]
    ELSE IF op = "ne" THEN [raised |-> FALSE, val |-> ~ValEq(a, b)]
    ELSE IF ~Ordered(a, b) THEN [raised |-> TRUE, val |-> FALSE]
    ELSE IF op = "lt" THEN [raised |-> FALSE, val |-> ValLess(a, b)]
    ELSE IF op = "le" THEN [raised |-> FALSE, val |-> ~ValLess(b, a)]
    ELSE IF op = "ge" THEN [raised |-> FALSE, val |-> ~ValLess(a, b)]
    ELSE [raised |-> FALSE, val |-> ValLess(b, a)]

\* dict.get(k): the value of the first item with key k, None without one.
RECURSIVE Get(_, _)
Get(d, k) ==
    IF d = <<>> THEN None
    ELSE IF Head(d).k = k THEN Head(d).v
    ELSE Get(Tail(d), k)

\* k in dict.
HasKey(d, k) == \E j \in 1..Len(d) : d[j].k = k

----------------------------------------------------------------------------
\* selector

or_ == <<"o", "r">>

\* A selector that also takes 'any' for 'or'.
IsOrOrAny(m) == m.t = "str" /\ m.s \in {<<"o", "r">>, <<"a", "n", "y">>}

\* mode == 'or'
IsOr(m) == ValEq(m, Str(or_))

\* A selector whose accumulator starts false in every mode.
selector_init_false(m) == FALSE

\* The accumulator before the first triple.
selector_init(m) == IF IsOr(m) THEN FALSE ELSE TRUE

\* One turn of selector's for loop on an accumulator.
selector_combine(m, _result, result) ==
    IF IsOr(m) THEN _result \/ result ELSE _result /\ result

\* The for loop from triple j on.  [raised, val]: op(el.get(k), v) is called
\* for every triple, whatever the accumulator, and its TypeError leaves the loop.
RECURSIVE selector_loop(_, _, _, _, _)
selector_loop(el, m, ops, j, result) ==
    IF j > Len(ops) THEN [raised |-> FALSE, val |-> result]
    ELSE LET r == Apply(ops[j].op, Get(el, ops[j].k), ops[j].v)
         IN  IF r.raised THEN [raised |-> TRUE, val |-> FALSE]
             ELSE selector_loop(el, m, ops, j + 1,
                                selector_combine(m, r.val, result))

selector(el, m, ops) == selector_loop(el, m, ops, 1, selector_init(m))

----------------------------------------------------------------------------
\* operators_reader

Sep == <<"_", "_">>

\* The first place of '__' in s, 0 without one.
Find(s) ==
    IF \E j \in 1..(Len(s) - 1) : s[j] = "_" /\ s[j + 1] = "_"
    THEN CHOOSE j \in 1..(Len(s) - 1) :
            /\ s[j] = "_" /\ s[j + 1] = "_"
            /\ \A h \in 1..(j - 1) : ~(s[h] = "_" /\ s[h + 1] = "_")
    ELSE 0

\* '__' in kw
Contains(s) == Find(s) # 0

\* kw.split('__'): the separators found left to right, not overlapping.
RECURSIVE Split(_)
Split(s) ==
    IF Find(s) = 0 THEN <<s>>
    ELSE <<SubSeq(s, 1, Find(s) - 1)>> \o Split(SubSeq(s, Find(s) + 2, Len(s)))

lt == <<"l", "t">>
le == <<"l", "e">>
eq == <<"e", "q">>
ne == <<"n", "e">>
ge == <<"g", "e">>
gt == <<"g", "t">>

\* The tuple ('lt', 'le', 'eq', 'ne', 'ge', 'gt') the code tests op against.
ValidOps == {lt, le, eq, ne, ge, gt}

\* getattr(operator, op) for a valid op.
Getattr(op) ==
    IF op = lt THEN "lt" ELSE IF op = le THEN "le" ELSE IF op = eq THEN "eq"
    ELSE IF op = ne THEN "ne" ELSE IF op = ge THEN "ge" ELSE "gt"

Triple(op, k, v) == [op |-> op, k |-> k, v |-> v]

\* The op a key without separator gets.
DefaultOp == eq

\* The triple added for key kw with value v.
NewTriple(op, _kw, v) == Triple(Getattr(op), _kw, v)

\* The body of operators_reader's for loop on one key: [exc, triple].
operators_reader_body(kw, v) ==
    IF Contains(kw)
    THEN LET parts == Split(kw)
         IN  IF Len(parts) # 2
             THEN [exc |-> UnpackError, triple |-> Triple("", <<>>, None)]
             ELSE IF parts[2] \notin ValidOps
             THEN [exc |-> InvalidOperator, triple |-> Triple("", <<>>, None)]
             ELSE [exc |-> NoExc, triple |-> NewTriple(parts[2], parts[1], v)]
    ELSE [exc |-> NoExc, triple |-> NewTriple(DefaultOp, kw, v)]

\* A reader that puts each triple before the earlier ones.
ReaderPrepend(ops, t) == <<t>> \o ops

\* operators.append(...)
ReaderAppend(ops, t) == Append(ops, t)

----------------------------------------------------------------------------
\* select

mode_key == <<"m", "o", "d", "e">>

\* The default of kwargs.pop('mode', 'or').
DefaultMode == Str(or_)

\* kwargs.pop('mode', 'or'): the value popped, and the dict left.
PopMode(d) == IF HasKey(d, mode_key) THEN Get(d, mode_key) ELSE DefaultMode

PopRest(d) == SelectSeq(d, LAMBDA e : e.k # mode_key)

\* elements after one turn of select's for loop on el.
Selected(elems, el, keep) == IF keep THEN Append(elems, el) ELSE elems

----------------------------------------------------------------------------
\* team_goals, sum_goals

home_team == <<"h", "o", "m", "e", "_", "t", "e", "a", "m">>
away_team == <<"a", "w", "a", "y", "_", "t", "e", "a", "m">>
home_score == <<"h", "o", "m", "e", "_", "s", "c", "o", "r", "e">>
away_score == <<"a", "w", "a", "y", "_", "s", "c", "o", "r", "e">>

\* The text of KeyError(k).
KeyError(k) ==
    Raise("KeyError",
          IF k = home_team THEN "'home_team'"
          ELSE IF k = home_score THEN "'home_score'"
          ELSE "'away_score'",
          "team_goals")

ParseError ==
    Raise("ValueError", "invalid literal for int() with base 10", "team_goals")

IntTypeError ==
    Raise("TypeError", "int() argument must be a string or a number", "team_goals")

\* The number a string of digits writes in base 10.
RECURSIVE DigitsValue(_)
DigitsValue(s) ==
    IF s = <<>> THEN 0
    ELSE DigitsValue(SubSeq(s, 1, Len(s) - 1)) * 10 + (ord(s[Len(s)]) - 48)

IsDigits(s) == s # <<>> /\ \A j \in 1..Len(s) : s[j] \in Range(Digits)

\* An int that takes a text that is no integer for zero.
BadLiteralZero(s) == [exc |-> NoExc, n |-> 0]

\* What int(str) does when the text is no integer.
BadLiteral(s) == [exc |-> ParseError, n |-> 0]

\* int(x): [exc, n].  A str is an optional sign and digits.
py_int(x) ==
    IF x.t = "int" THEN [exc |-> NoExc, n |-> x.n]
    ELSE IF x.t = "none" THEN [exc |-> IntTypeError, n |-> 0]
    ELSE IF IsDigits(x.s) THEN [exc |-> NoExc, n |-> DigitsValue(x.s)]
    ELSE IF x.s # <<>> /\ Head(x.s) \in {"+", "-"} /\ IsDigits(Tail(x.s))
    THEN [exc |-> NoExc,
          n |-> IF Head(x.s) = "-" THEN 0 - DigitsValue(Tail(x.s))
                ELSE DigitsValue(Tail(x.s))]
    ELSE BadLiteral(x.s)

\* int(game[k]): KeyError without the key.
Score(game, k) ==
    IF ~HasKey(game, k) THEN [exc |-> KeyError(k), n |-> 0]
    ELSE py_int(Get(game, k))

\* A team_goals that reads the other side's score.
team_goals_swapped(game, team_name) ==
    IF ~HasKey(game, home_team) THEN [exc |-> KeyError(home_team), n |-> 0]
    ELSE IF ValEq(Get(game, home_team), team_name) THEN Score(game, away_score)
    ELSE Score(game, home_score)

\* A team_goals that tests away_team too and counts nothing for a third team.
team_goals_either(game, team_name) ==
    IF ~HasKey(game, home_team) THEN [exc |-> KeyError(home_team), n |-> 0]
    ELSE IF ValEq(Get(game, home_team), team_name) THEN Score(game, home_score)
    ELSE IF ValEq(Get(game, away_team), team_name) THEN Score(game, away_score)
    ELSE [exc |-> NoExc, n |-> 0]

\* team_goals: [exc, n].
team_goals(game, team_name) ==
    IF ~HasKey(game, home_team) THEN [exc |-> KeyError(home_team), n |-> 0]
    ELSE IF ValEq(Get(game, home_team), team_name) THEN Score(game, home_score)
    ELSE Score(game, away_score)

----------------------------------------------------------------------------
\* What print writes: a total or a text.

Total(k) == [kind |-> "total", n |-> k, text |-> ""]

Text(msg) == [kind |-> "text", n |-> 0, text |-> msg]

----------------------------------------------------------------------------
\* The inputs of a run.

Italy == <<"I", "t", "a", "l", "y">>
France == <<"F", "r", "a", "n", "c", "e">>
Spain == <<"S", "p", "a", "i", "n">>

Item(k, v) == [k |-> k, v |-> v]

\* dict(zip(columns, row_splitter(row))) of a full row: every value is text.
Game(h, a, hs, as) ==
    <<Item(home_team, Str(h)), Item(away_team, Str(a)),
      Item(home_score, Str(hs)), Item(away_score, Str(as))>>

\* zip stops at the shorter side: a row of one cell gives a record of one field.
ShortGame(h) == <<Item(home_team, Str(h))>>

ItalyFrance == Game(Italy, France, <<"2">>, <<"1">>)
FranceItaly == Game(France, Italy, <<"0">>, <<"3">>)
ItalyItaly == Game(Italy, Italy, <<"1">>, <<"2">>)
FranceFrance == Game(France, France, <<"1", "0">>, <<"4">>)
ItalyFranceBad == Game(Italy, France, <<"x">>, <<"1">>)

\* The records of the runs on the filter, of the runs on the compiler and of
\* the runs on the aggregator.
SelectRecords == {ItalyFrance, FranceItaly, ShortGame(France)}

CompileRecords == {ItalyFrance}

MainRecords ==
    {ItalyFrance, FranceItaly, ItalyItaly, FranceFrance, ItalyFranceBad,
     ShortGame(France)}

\* Query entries whose key compiles: the six comparators, each also on a field
\* that ShortGame lacks, a key without separator, a number as target.
SelectItems ==
    {Item(home_team \o Sep \o eq, Str(Italy)),
     Item(away_team \o Sep \o eq, Str(Italy)),
     Item(home_team, Str(France)),
     Item(away_team \o Sep \o ne, Str(France)),
     Item(home_score \o Sep \o lt, Str(<<"2">>)),
     Item(home_score \o Sep \o ge, Num(1)),
     Item(away_score \o Sep \o le, Str(<<"1">>)),
     Item(away_score \o Sep \o gt, Str(<<"1">>))}

\* Query entries for the compiler: valid keys, an unknown comparator, an empty
\* one, three underscores (one separator, comparator '_eq'), two separators.
CompileItems ==
    {Item(home_team \o Sep \o eq, Str(Italy)),
     Item(away_team, Str(Italy)),
     Item(home_score \o Sep \o gt, Str(<<"1">>)),
     Item(away_score \o Sep \o ne, Str(<<"1">>)),
     Item(home_score \o Sep \o <<"b", "e", "t", "w", "e", "e", "n">>, Num(1)),
     Item(away_team \o Sep, Str(Italy)),
     Item(home_team \o <<"_">> \o Sep \o eq, Str(Italy)),
     Item(home_team \o Sep \o away_team \o Sep \o eq, Str(Italy)),
     Item(<<"a">> \o Sep \o <<"b">> \o Sep \o <<"g", "t", "e">>, Num(1))}

any_ == <<"a", "n", "y">>
all_ == <<"a", "l", "l">>
xor_ == <<"x", "o", "r">>

SelectModes == {Str(or_), Str(any_), Str(all_), Str(xor_)}

CompileModes == {Str(all_)}

\* The dicts of at most n entries of items, no key twice, in every order.
Dicts(items, n) ==
    UNION {{d \in [1..len -> items] :
              \A a, b \in 1..len : a # b => d[a].k # d[b].k} : len \in 0..n}

\* A query: the mode entry, or none, before the comparison entries.
Queries(items, modes, n) ==
    {d : d \in Dicts(items, n)}
    \cup {<<Item(mode_key, m)>> \o d : m \in modes, d \in Dicts(items, n)}

\* The search_params of the entry point for a team, and a query that keeps
\* every record.
MainQuery(t) ==
    <<Item(mode_key, Str(or_)),
      Item(home_team \o Sep \o eq, Str(t)),
      Item(away_team \o Sep \o eq, Str(t))>>

KeepAll == <<Item(mode_key, Str(all_))>>

RecordSeqs(records, n) == UNION {[1..len -> records] : len \in 0..n}

----------------------------------------------------------------------------
\* The state machine: print(sum_goals(select(it, **search_params), team))
\* in the try of the entry point, after print("Italy games").

InitWith(records, queries, teams) ==
    /\ it \in RecordSeqs(records, MaxRecords)
    /\ search_params \in queries
    /\ team \in teams
    /\ pc = "select"
    /\ kwargs = <<>>
    /\ mode = None
    /\ reader_ops = <<>>
    /\ operators = <<>>
    /\ elements = <<>>
    /\ i = 0
    /\ res = 0
    /\ exc = NoExc
    /\ stdout = <<Text("Italy games")>>

Init ==
    InitWith(SelectRecords, Queries(SelectItems, SelectModes, MaxKeys),
             {Str(Italy)})

InitCompile ==
    InitWith(CompileRecords, Queries(CompileItems, CompileModes, MaxKeys),
             {Str(Italy)})

InitMain ==
    \E t \in {Italy, France, Spain} :
        InitWith(MainRecords, {MainQuery(t), KeepAll}, {Str(t)})

\* select is called: mode is popped and operators_reader entered.
select_call ==
    /\ pc = "select"
    /\ pc' = "reader"
    /\ mode' = PopMode(search_params)
    /\ kwargs' = PopRest(search_params)
    /\ reader_ops' = <<>>
    /\ i' = 1
    /\ UNCHANGED <<it, search_params, team, operators, elements, res, exc, stdout>>

\* One turn of operators_reader's for loop.
operators_reader_step ==
    /\ pc = "reader"
    /\ i <= Len(kwargs)
    /\ LET r == operators_reader_body(kwargs[i].k, kwargs[i].v)
       IN  IF r.exc # NoExc
           THEN /\ exc' = r.exc
                /\ pc' = "except"
                /\ UNCHANGED <<reader_ops, i>>
           ELSE /\ reader_ops' = ReaderAppend(reader_ops, r.triple)
                /\ i' = i + 1
                /\ UNCHANGED <<exc, pc>>
    /\ UNCHANGED <<it, search_params, team, kwargs, mode, operators, elements,
                   res, stdout>>

\* operators_reader returns its list; select binds it and starts its loop.
operators_reader_return ==
    /\ pc = "reader"
    /\ i > Len(kwargs)
    /\ operators' = <<reader_ops>>
    /\ elements' = <<>>
    /\ i' = 1
    /\ pc' = "filter"
    /\ UNCHANGED <<it, search_params, team, kwargs, mode, reader_ops, res, exc,
                   stdout>>

\* One turn of select's for loop.
select_step ==
    /\ pc = "filter"
    /\ i <= Len(it)
    /\ LET r == selector(it[i], mode, operators[1])
       IN  IF r.raised
           THEN /\ exc' = CompareError
                /\ pc' = "except"
                /\ UNCHANGED <<elements, i>>
           ELSE /\ elements' = Selected(elements, it[i], r.val)
                /\ i' = i + 1
                /\ UNCHANGED <<exc, pc>>
    /\ UNCHANGED <<it, search_params, team, kwargs, mode, reader_ops, operators,
                   res, stdout>>

\* select returns elements; sum_goals starts its reduce from 0.
select_return ==
    /\ pc = "filter"
    /\ i > Len(it)
    /\ res' = 0
    /\ i' = 1
    /\ pc' = "sum"
    /\ UNCHANGED <<it, search_params, team, kwargs, mode, reader_ops, operators,
                   elements, exc, stdout>>

\* One turn of sum_goals' reduce.
sum_goals_step ==
    /\ pc = "sum"
    /\ i <= Len(elements)
    /\ LET r == team_goals(elements[i], team)
       IN  IF r.exc # NoExc
           THEN /\ exc' = r.exc
                /\ pc' = "except"
                /\ UNCHANGED <<res, i>>
           ELSE /\ res' = res + r.n
                /\ i' = i + 1
                /\ UNCHANGED <<exc, pc>>
    /\ UNCHANGED <<it, search_params, team, kwargs, mode, reader_ops, operators,
                   elements, stdout>>

\* sum_goals returns and the total is printed.
sum_goals_return ==
    /\ pc = "sum"
    /\ i > Len(elements)
    /\ stdout' = Append(stdout, Total(res))
    /\ pc' = "done"
    /\ UNCHANGED <<it, search_params, team, kwargs, mode, reader_ops, operators,
                   elements, i, res, exc>>

\* except Exception as ex: print(ex)
main_except ==
    /\ pc = "except"
    /\ stdout' = Append(stdout, Text(exc.msg))
    /\ pc' = "done"
    /\ UNCHANGED <<it, search_params, team, kwargs, mode, reader_ops, operators,
                   elements, i, res, exc>>

Next ==
    \/ select_call
    \/ operators_reader_step
    \/ operators_reader_return
    \/ select_step
    \/ select_return
    \/ sum_goals_step
    \/ sum_goals_return
    \/ main_except

\* Runs on the filter.
Spec == Init /\ [][Next]_vars

\* Runs on the compiler.
SpecCompile == InitCompile /\ [][Next]_vars

\* Runs on the aggregator.
SpecMain == InitMain /\ [][Next]_vars

----------------------------------------------------------------------------
\* Where a run stands.

\* operators_reader has returned or raised.
CompileEnded == pc \notin {"select", "reader"}

\* select has returned its elements.
SelectReturned ==
    pc \in {"sum", "except", "done"} /\ exc.where \in {"", "team_goals"}

\* The mode is the string 'or'.
ModeIsOr == mode = Str(or_)

\* The triples select filters with, once operators_reader has returned them.
Triples == operators[1]

\* comparator(record.get(field), target) is true.
Holds(el, t) ==
    /\ ~Apply(t.op, Get(el, t.k), t.v).raised
    /\ Apply(t.op, Get(el, t.k), t.v).val

\* comparator(record.get(field), target) raises.
Fails(el, t) == Apply(t.op, Get(el, t.k), t.v).raised

AnyHolds(el) == \E j \in 1..Len(Triples) : Holds(el, Triples[j])

AllHold(el) == \A j \in 1..Len(Triples) : Holds(el, Triples[j])

\* '__' stands at place p of kw.
SepAt(kw, p) == p >= 1 /\ p < Len(kw) /\ kw[p] = "_" /\ kw[p + 1] = "_"

SepPlaces(kw) == {p \in 1..Len(kw) : SepAt(kw, p)}

\* kw is field__token, neither part holding a separator, token no comparator.
InvalidTokenKey(kw) ==
    \E p \in SepPlaces(kw) :
        /\ SepPlaces(SubSeq(kw, 1, p - 1)) = {}
        /\ SepPlaces(SubSeq(kw, p + 2, Len(kw))) = {}
        /\ SubSeq(kw, p + 2, Len(kw)) \notin {lt, le, eq, ne, ge, gt}

\* kw holds two separators that do not overlap.
MultiSepKey(kw) == \E p, q \in SepPlaces(kw) : q >= p + 2

\* kw is a bare field, or field__cmp with cmp one of the six comparators.
PlainKey(kw) ==
    \/ SepPlaces(kw) = {}
    \/ /\ Cardinality(SepPlaces(kw)) = 1
       /\ \E p \in SepPlaces(kw) :
              SubSeq(kw, p + 2, Len(kw)) \in {lt, le, eq, ne, ge, gt}

\* The comparator each token names.
OpTable ==
    {<<lt, "lt">>, <<le, "le">>, <<eq, "eq">>, <<ne, "ne">>, <<ge, "ge">>,
     <<gt, "gt">>}

\* The triple the specification gives for a plain key.
PlainTriple(kw, v) ==
    IF SepPlaces(kw) = {} THEN [op |-> "eq", k |-> kw, v |-> v]
    ELSE LET p == CHOOSE q \in SepPlaces(kw) : TRUE
             nm == CHOOSE e \in OpTable : e[1] = SubSeq(kw, p + 2, Len(kw))
         IN  [op |-> nm[2], k |-> SubSeq(kw, 1, p - 1), v |-> v]

----------------------------------------------------------------------------
\* C1 (as stated): once the triples are compiled, select returns exactly the
\* records of it, in order, for which at least one triple is true under mode
\* 'any' and every triple is true under mode 'all'.
C1_SelectAnyAll ==
    (CompileEnded /\ operators # <<>> /\ pc # "filter"
        /\ mode \in {Str(any_), Str(all_)})
    => /\ SelectReturned
       /\ mode = Str(any_) => elements = SelectSeq(it, AnyHolds)
       /\ mode = Str(all_) => elements = SelectSeq(it, AllHold)

C3_InvalidTokenFails ==
    (CompileEnded /\ \E j \in 1..Len(kwargs) : InvalidTokenKey(kwargs[j].k))
    => /\ exc = InvalidOperator
       /\ operators = <<>>
       /\ elements = <<>>

\* C4 (as stated): no comparison on a field absent from the record raises, for
\* any of the six comparators: when selector raises on record it[i], the triple
\* that raised reads a field the record has.
C4_AbsentFieldNeverRaises ==
    exc.where = "selector"
    => LET el == it[i]
           j == CHOOSE a \in 1..Len(Triples) :
                    /\ Fails(el, Triples[a])
                    /\ \A b \in 1..(a - 1) : ~Fails(el, Triples[b])
       IN  HasKey(el, Triples[j].k)

\* C5: when every key is a bare field or field__cmp with a valid comparator,
\* operators_reader returns one triple per key in the order of the keys:
\* (eq, key, value) for a bare field and (cmp, field, value) for field__cmp.
C5_OneTriplePerKey ==
    (CompileEnded /\ \A j \in 1..Len(kwargs) : PlainKey(kwargs[j].k))
    => /\ operators # <<>>
       /\ Len(Triples) = Len(kwargs)
       /\ \A j \in 1..Len(kwargs) :
              Triples[j] = PlainTriple(kwargs[j].k, kwargs[j].v)

\* C5's case: a bare field compiled after a field__cmp key.
C5_Witness ==
    /\ pc = "filter"
    /\ Len(kwargs) = 2
    /\ SepPlaces(kwargs[1].k) # {}
    /\ SepPlaces(kwargs[2].k) = {}
    /\ Len(Triples) = 2
    /\ Triples[1].op = "gt"
    /\ Triples[2].op = "eq"

\* C8 (as stated): a key with more than one separator makes compilation fail
\* with Invalid Operator and no triple list, not with another error.
C8_MultiSeparatorFails ==
    (CompileEnded /\ \E j \in 1..Len(kwargs) : MultiSepKey(kwargs[j].k))
    => /\ exc = InvalidOperator
       /\ operators = <<>>

\* C9: select never rejects a mode.  With the triples compiled, select raises
\* exactly when some comparison raises, whatever the mode; otherwise it
\* returns the records for which some triple is true when the mode is the
\* string 'or', and those for which every triple is true for any other mode
\* ('any', 'all', unknown tokens).  The mode is 'or' when the key is absent.
C9_ModeCombination ==
    /\ (pc # "select" /\ ~HasKey(search_params, mode_key)) => ModeIsOr
    /\ (CompileEnded /\ operators # <<>> /\ pc # "filter")
       => IF \E j \in 1..Len(it), a \in 1..Len(Triples) : Fails(it[j], Triples[a])
          THEN exc = CompareError
          ELSE /\ SelectReturned
               /\ ModeIsOr => elements = SelectSeq(it, AnyHolds)
               /\ ~ModeIsOr => elements = SelectSeq(it, AllHold)

\* C9's case: mode 'any' over two triples drops a record that one of the
\* triples accepts, and keeps another.
C9_Witness ==
    /\ pc = "done"
    /\ SelectReturned
    /\ mode = Str(any_)
    /\ Len(Triples) = 2
    /\ Len(it) = 2
    /\ Len(elements) = 1
    /\ \E j \in 1..Len(it) : AnyHolds(it[j]) /\ ~AllHold(it[j])

----------------------------------------------------------------------------
\* The aggregator's claims.

\* The run is the entry point's: mode 'or', home_team__eq and away_team__eq
\* on the team whose goals are summed.
MainRun == search_params = MainQuery(team.s)

\* The text writes an integer: digits, a sign before them or none.
IntegerText(v) ==
    IsDigits(v) \/ (v # <<>> /\ Head(v) \in {"+", "-"} /\ IsDigits(Tail(v)))

\* The record has the four fields, both scores integers.
IntegerScores(g) ==
    /\ \A k \in {home_team, away_team, home_score, away_score} : HasKey(g, k)
    /\ \A k \in {home_score, away_score} : IntegerText(Get(g, k).s)

\* The number a score field writes.
Goals(g, k) ==
    LET v == Get(g, k).s
    IN  IF IsDigits(v) THEN DigitsValue(v)
        ELSE IF Head(v) = "-" THEN 0 - DigitsValue(Tail(v))
        ELSE DigitsValue(Tail(v))

IsHome(g, t) == Get(g, home_team) = t

IsAway(g, t) == Get(g, away_team) = t

\* home_score where t is home plus away_score where t is away, over games.
RECURSIVE Attributed(_, _)
Attributed(games, t) ==
    IF games = <<>> THEN 0
    ELSE (IF IsHome(Head(games), t) THEN Goals(Head(games), home_score) ELSE 0)
         + (IF IsAway(Head(games), t) THEN Goals(Head(games), away_score) ELSE 0)
         + Attributed(Tail(games), t)

\* home_score where t is home, away_score where t is away and not home.
RECURSIVE AttributedOnce(_, _)
AttributedOnce(games, t) ==
    IF games = <<>> THEN 0
    ELSE (IF IsHome(Head(games), t) THEN Goals(Head(games), home_score)
          ELSE IF IsAway(Head(games), t) THEN Goals(Head(games), away_score)
          ELSE 0)
         + AttributedOnce(Tail(games), t)

\* home_score where t is home, away_score in every other record.
RECURSIVE HomeElseAway(_, _)
HomeElseAway(games, t) ==
    IF games = <<>> THEN 0
    ELSE (IF IsHome(Head(games), t) THEN Goals(Head(games), home_score)
          ELSE Goals(Head(games), away_score))
         + HomeElseAway(Tail(games), t)

\* C6 (as stated): over records with integer scores, the entry point's
\* selection and sum for X print home_score of each record where X is home
\* plus away_score of each record where X is away.
C6_TotalOfAttributedGoals ==
    (pc = "done" /\ MainRun /\ \A j \in 1..Len(it) : IntegerScores(it[j]))
    => stdout = <<Text("Italy games"), Total(Attributed(it, team))>>

\* C6 (amended): over records with the four fields and integer scores, the
\* entry point's selection and sum for X print home_score of each record
\* where X is home plus away_score of each record where X is away and not
\* home.
C6_TotalOfGoals ==
    (pc = "done" /\ MainRun /\ \A j \in 1..Len(it) : IntegerScores(it[j]))
    => stdout = <<Text("Italy games"), Total(AttributedOnce(it, team))>>

\* C6's case: the two records of the example, Italy home in one and away in
\* the other, print 2 + 3 = 5.
C6_Witness ==
    /\ pc = "done"
    /\ MainRun
    /\ team = Str(Italy)
    /\ it = <<ItalyFrance, FranceItaly>>
    /\ elements = it
    /\ stdout = <<Text("Italy games"), Total(5)>>

\* The field team_goals reads from g is there and is no integer.
ExtractsBadScore(g, t) ==
    /\ HasKey(g, home_team)
    /\ LET k == IF IsHome(g, t) THEN home_score ELSE away_score
       IN  HasKey(g, k) /\ ~IntegerText(Get(g, k).s)

\* The first record of games on which team_goals fails, 0 without one.
FirstFailure(games, t) ==
    IF \E j \in 1..Len(games) : team_goals(games[j], t).exc # NoExc
    THEN CHOOSE j \in 1..Len(games) :
            /\ team_goals(games[j], t).exc # NoExc
            /\ \A h \in 1..(j - 1) : team_goals(games[h], t).exc = NoExc
    ELSE 0

ReadsInteger(g, t) ==
    /\ HasKey(g, home_team)
    /\ LET k == IF IsHome(g, t) THEN home_score ELSE away_score
       IN  HasKey(g, k) /\ IntegerText(Get(g, k).s)

\* C10: team_goals gives int(home_score) when home_team is the entity and
\* int(away_score) otherwise, away_team never read: while sum_goals runs, the
\* records done had an integer in that field and res is that sum over them,
\* and the total printed is that sum over all the records.
C10_HomeElseAway ==
    /\ pc = "sum"
       => /\ \A j \in 1..(i - 1) : ReadsInteger(elements[j], team)
          /\ res = HomeElseAway(SubSeq(elements, 1, i - 1), team)
    /\ (pc = "done" /\ exc = NoExc)
       => /\ \A j \in 1..Len(elements) : ReadsInteger(elements[j], team)
          /\ stdout = <<Text("Italy games"), Total(HomeElseAway(elements, team))>>

\* C10's case: Italy is both parties of the first record (home_score 1 is
\* added, away_score 2 is not) and neither party of the second (away_score 4
\* is added).
C10_Witness ==
    /\ pc = "done"
    /\ team = Str(Italy)
    /\ elements = <<ItalyItaly, FranceFrance>>
    /\ stdout = <<Text("Italy games"), Total(5)>>

====
